---- MODULE Spec2Model ----
(***************************************************************************)
(* Model of packages/vue-language-server/src/utils/project.ts:            *)
(* createProject, the per-workspace project controller of the language    *)
(* server.  It owns the project and type-root version counters, the       *)
(* parsed command line, the registry of scripts known by path, the        *)
(* language service host handed to the analysis engine and the lazily     *)
(* constructed language service itself.                                   *)
(*                                                                         *)
(* An optional value (T | undefined) is a sequence of length 0 or 1.       *)
(*                                                                         *)
(* The filesystem (projectSys), the document store (documents) and the    *)
(* configuration parser are collaborators outside the project: what they  *)
(* answer to a call is an input of the action that makes the call, drawn  *)
(* anew at every call, since the workspace and the editor may have changed *)
(* in any way since the call before.                                       *)
(***************************************************************************)
EXTENDS Integers, Sequences, FiniteSets

\* ------------------------------------------------------------------ bounds
MaxBatch == 2            \* longest batch of file events in one call
MaxProjectVersion == 3   \* cap of the projectVersion counter
MaxDocVersion == 1       \* highest version of an open document
MaxDispose == 2          \* number of dispose() calls explored
MaxResolutions == 1      \* content resolutions that can be in flight

\* ------------------------------------------------------------------ values
Paths == {"/a.ts", "/b.ts"}
Uris == {"file:///a.ts", "file:///b.ts"}
Contents == {"x", "y"}
DocContents == {"z"}
FileChangeTypes == {"Created", "Changed", "Deleted"}
ConfigIncludes == {"/a.ts"}
SchemaUris == {"http://schema", "vscode://schema"}
BuiltInProtocols == {"http"}

None == << >>
Some(v) == << v >>

\* shared.uriToFsPath, used by the path map's uriGet / uriDelete
UriToFsPath(uri) ==
    CASE uri = "file:///a.ts" -> "/a.ts"
      [] uri = "file:///b.ts" -> "/b.ts"

\* uri.substring(0, uri.indexOf(':'))
Protocol(uri) ==
    CASE uri = "http://schema" -> "http"
      [] uri = "vscode://schema" -> "vscode"

Digit(d) ==
    CASE d = 0 -> "0" [] d = 1 -> "1" [] d = 2 -> "2" [] d = 3 -> "3"
      [] d = 4 -> "4" [] d = 5 -> "5" [] d = 6 -> "6" [] d = 7 -> "7"
      [] d = 8 -> "8" [] d = 9 -> "9"

RECURSIVE NatToString(_)
NatToString(n) ==
    IF n < 10 THEN Digit(n) ELSE NatToString(n \div 10) \o Digit(n % 10)

\* Number.prototype.toString in base 10
ToString(n) == IF n < 0 THEN "-" \o NatToString(0 - n) ELSE NatToString(n)

\* ts.ScriptSnapshot.fromString
FromString(text) == [text |-> text]

VARIABLES
    typeRootVersion,    \* let typeRootVersion
    projectVersion,     \* let projectVersion
    vueLs,              \* let vueLs: 0 is undefined, else the instance's identity
    parsedCommandLine,  \* let parsedCommandLine
    scripts,            \* the path map: a function from the tracked paths to entries
    schemaRequestService, \* options.languageFeatures?.schemaRequestService
    resolutions,        \* the content resolutions the engine has started
    inFlight,           \* the onWorkspaceFilesChanged call that is running, if it is
                        \* followed statement by statement: where it is, the events
                        \* left, and the state it started from
    factoryCalls,       \* history: calls of languageConfigs.createLanguageService
    parseCount,         \* history: calls of createParsedCommandLine
    recording,          \* which of the histories below this behaviour keeps
    releaseCalls,       \* history "lifecycle": calls of vueLs.dispose
    disposeCalls,       \* history "lifecycle": calls of dispose
    run,                \* history "runs": per path, the versions since the last snapshot read
    fetched,            \* history "fetches": per path, the version tokens under which a
                        \* snapshot was fetched since the last event for the path
                        \* (held) and before it (spent)
    tokenRead,          \* history "tokens": the token the last getProjectVersion call
                        \* returned, and the events and document updates since
    deleted,            \* history "deletions": per path, whether a Deleted event removed its
                        \* entry and no Created event (noCreate), no read that tracks
                        \* it again (noRead) followed
    lastCall            \* history "calls": the last call that is no mere read of the
                        \* state, the state it found and what it returned

vars == << typeRootVersion, projectVersion, vueLs, parsedCommandLine, scripts,
           schemaRequestService, resolutions, inFlight, factoryCalls,
           parseCount, recording, releaseCalls, disposeCalls, run, fetched,
           tokenRead, deleted, lastCall >>

progVars == << typeRootVersion, projectVersion, vueLs, parsedCommandLine, scripts >>
envVars == << schemaRequestService >>
histVars == << factoryCalls, parseCount, recording, releaseCalls, disposeCalls >>

\* ------------------------------------------------------------ filesystem
\* what projectSys answers about one file: whether it exists, and the text
\* readFile gives (undefined when the file cannot be read)
FileStates ==
    { [exists |-> FALSE, text |-> None] } \cup
    { [exists |-> TRUE, text |-> t] : t \in {None} \cup { Some(c) : c \in Contents } }

\* projectSys.fileExists
FileExists(file) == file.exists

\* projectSys.readFile
ReadFile(file) == IF file.exists THEN file.text ELSE None

\* what documents.data.fsPathGet answers: undefined, or an open document
Documents == [version : 1..MaxDocVersion, snapshot : { FromString(c) : c \in DocContents }]
DocAnswers == {None} \cup { Some(d) : d \in Documents }

\* what createParsedCommandLine (lines 211-235) can give: the files the
\* configuration's include patterns match in the workspace as it is now
ParsedCommandLines == { [fileNames |-> S] : S \in SUBSET ConfigIncludes }

\* ------------------------------------------------------------- path map
Tracked == DOMAIN scripts

\* scripts.fsPathGet / scripts.uriGet: the entry, or undefined
FsPathGet(map, fileName) == IF fileName \in DOMAIN map THEN Some(map[fileName]) ELSE None
UriGet(map, uri) == FsPathGet(map, UriToFsPath(uri))

\* scripts.fsPathSet
FsPathSet(map, fileName, entry) ==
    [p \in DOMAIN map \cup {fileName} |-> IF p = fileName THEN entry ELSE map[p]]

\* scripts.uriDelete
UriDelete(map, uri) == [p \in DOMAIN map \ {UriToFsPath(uri)} |-> map[p]]

\* scripts.clear
Clear(map) == [p \in {} |-> map[p]]

\* ------------------------------------------------------------- histories
\* a call of op in the present state: before is the project's state when the
\* call is made, the other fields are the call's inputs and what it returns
Call(op) ==
    [op |-> op,
     before |-> [projectVersion |-> projectVersion, typeRootVersion |-> typeRootVersion,
                 parsedCommandLine |-> parsedCommandLine, parseCount |-> parseCount,
                 scripts |-> scripts],
     path |-> "", open |-> FALSE, file |-> << >>, snap |-> None, fsRead |-> FALSE,
     num |-> 0, kinds |-> {}]

NoRun == [vers |-> {}, n |-> 0, snap |-> None]
NoFetch == [held |-> {}, spent |-> {}]
NoToken == [token |-> "", since |-> 0]
NotDeleted == [noCreate |-> FALSE, noRead |-> FALSE]
JustDeleted == [noCreate |-> TRUE, noRead |-> TRUE]
Recording(h) == recording = h

\* the token read, n events or document updates later
Since(n) ==
    IF Recording("tokens") /\ tokenRead # NoToken
    THEN [tokenRead EXCEPT !.since = @ + n] ELSE tokenRead

\* ---------------------------------------------------------------- scheduling
\* YieldsAt with an await in front of the recomputation of the configuration
YieldsAtRecompute(pc) == pc = "recompute"

\* lines 94-122: whether onWorkspaceFilesChanged, standing at pc, hands control
\* back to the event loop.  The function is async but holds no await, so its
\* body runs to its end within the call.
YieldsAt(pc) == FALSE

\* the event loop can start a handler, a callback of the host or the
\* continuation of a promise: nothing is running, or what runs has yielded
CanRun == IF inFlight = None THEN TRUE ELSE YieldsAt(inFlight[1].pc)

\* --------------------------------------------- onWorkspaceFilesChanged
Changes == [uri : Uris, type : FileChangeTypes]

Batches == UNION { [1..n -> Changes] : n \in 0..MaxBatch }

\* InvalidateVersion counting upwards
InvalidateVersionIncrement(version) == version + 1

\* InvalidateVersion marking the script dirty with the same version each time
InvalidateVersionReset(version) == -1

\* lines 101-106: the new version of a tracked script that changed
InvalidateVersion(version) == IF version >= 0 THEN -1 ELSE version - 1

\* line 112
BumpProjectVersion(version) == version + 1

\* ChangeStep treating a Deleted event like a Changed one
ChangeStepDeleteInvalidates(st, change) ==
    LET script == UriGet(st.scripts, change.uri)
    IN  IF script # None
        THEN [scripts |-> [st.scripts EXCEPT ![UriToFsPath(change.uri)].version =
                              InvalidateVersion(script[1].version)],
              projectVersion |-> BumpProjectVersion(st.projectVersion)]
        ELSE [scripts |-> st.scripts,
              projectVersion |-> BumpProjectVersion(st.projectVersion)]

\* ChangeStep tracking the path of a Created event that has no script
ChangeStepCreateTracks(st, change) ==
    LET script == UriGet(st.scripts, change.uri)
    IN  IF script # None /\ change.type \in {"Changed", "Created"}
        THEN [scripts |-> [st.scripts EXCEPT ![UriToFsPath(change.uri)].version =
                              InvalidateVersion(script[1].version)],
              projectVersion |-> BumpProjectVersion(st.projectVersion)]
        ELSE IF script # None /\ change.type = "Deleted"
        THEN [scripts |-> UriDelete(st.scripts, change.uri),
              projectVersion |-> BumpProjectVersion(st.projectVersion)]
        ELSE IF change.type = "Created"
        THEN [scripts |-> FsPathSet(st.scripts, UriToFsPath(change.uri),
                                    [version |-> -1, fileName |-> UriToFsPath(change.uri),
                                     snapshot |-> None, snapshotVersion |-> None]),
              projectVersion |-> BumpProjectVersion(st.projectVersion)]
        ELSE [scripts |-> st.scripts,
              projectVersion |-> BumpProjectVersion(st.projectVersion)]

\* ChangeStep with projectVersion++ moved into the branches that find a script
ChangeStepTrackedOnly(st, change) ==
    LET script == UriGet(st.scripts, change.uri)
    IN  IF script # None /\ change.type \in {"Changed", "Created"}
        THEN [scripts |-> [st.scripts EXCEPT ![UriToFsPath(change.uri)].version =
                              InvalidateVersion(script[1].version)],
              projectVersion |-> BumpProjectVersion(st.projectVersion)]
        ELSE IF script # None /\ change.type = "Deleted"
        THEN [scripts |-> UriDelete(st.scripts, change.uri),
              projectVersion |-> BumpProjectVersion(st.projectVersion)]
        ELSE st

\* lines 98-112: the body of the loop, for one change; st is the registry and
\* the project version before it
ChangeStep(st, change) ==
    LET script == UriGet(st.scripts, change.uri)
    IN  IF script # None /\ change.type \in {"Changed", "Created"}
        THEN [scripts |-> [st.scripts EXCEPT ![UriToFsPath(change.uri)].version =
                              InvalidateVersion(script[1].version)],
              projectVersion |-> BumpProjectVersion(st.projectVersion)]
        ELSE IF script # None /\ change.type = "Deleted"
        THEN [scripts |-> UriDelete(st.scripts, change.uri),
              projectVersion |-> BumpProjectVersion(st.projectVersion)]
        ELSE [scripts |-> st.scripts,
              projectVersion |-> BumpProjectVersion(st.projectVersion)]

\* lines 96-113: for (const change of changes)
RECURSIVE ProcessChanges(_, _)
ProcessChanges(st, changes) ==
    IF changes = << >> THEN st
    ELSE ProcessChanges(ChangeStep(st, Head(changes)), Tail(changes))

\* StructuralChange testing changes.length instead
StructuralChangeAny(changes) == Len(changes) # 0

\* lines 115-118: creates.length || deletes.length
StructuralChange(changes) ==
    LET creates == SelectSeq(changes, LAMBDA change : change.type = "Created")
        deletes == SelectSeq(changes, LAMBDA change : change.type = "Deleted")
    IN  Len(creates) # 0 \/ Len(deletes) # 0

\* history: what one change adds to the runs and the deletions, st being the
\* state before the change and after the state after it
Observe(h, st, after, change) ==
    LET p == UriToFsPath(change.uri)
        tracked == p \in DOMAIN st.scripts
    IN  [run |-> IF ~tracked THEN h.run
                 ELSE IF change.type = "Deleted" THEN [h.run EXCEPT ![p] = NoRun]
                 ELSE [h.run EXCEPT ![p].vers = @ \cup {after.scripts[p].version},
                                    ![p].n = @ + 1],
         deleted |-> IF change.type = "Created"
                     THEN [h.deleted EXCEPT ![p].noCreate = FALSE]
                     ELSE IF change.type = "Deleted" /\ tracked
                     THEN [h.deleted EXCEPT ![p] = JustDeleted]
                     ELSE h.deleted,
         fetched |-> [h.fetched EXCEPT ![p] =
                         [held |-> {}, spent |-> @.spent \cup @.held]]]

RECURSIVE History(_, _, _)
History(h, st, changes) ==
    IF changes = << >> THEN h
    ELSE LET after == ChangeStep(st, Head(changes))
         IN  History(Observe(h, st, after, Head(changes)), after, Tail(changes))

\* the kinds of a batch, for the history of calls
Kinds(changes) == { changes[i].type : i \in 1..Len(changes) }

\* lines 94-122
OnWorkspaceFilesChanged(changes) ==
    LET before == [scripts |-> scripts, projectVersion |-> projectVersion]
        st == ProcessChanges(before, changes)
        h == History([run |-> run, deleted |-> deleted, fetched |-> fetched],
                     before, changes)
    IN  /\ Len(changes) <= MaxProjectVersion - projectVersion
        /\ CanRun
        /\ scripts' = st.scripts
        /\ projectVersion' = st.projectVersion
        /\ IF StructuralChange(changes)
           THEN /\ parsedCommandLine' \in ParsedCommandLines
                /\ parseCount' = parseCount + 1
                /\ typeRootVersion' = typeRootVersion + 1
           ELSE UNCHANGED << parsedCommandLine, parseCount, typeRootVersion >>
        /\ run' = IF Recording("runs") THEN h.run ELSE run
        /\ fetched' = IF Recording("fetches") THEN h.fetched ELSE fetched
        /\ tokenRead' = Since(Len(changes))
        /\ deleted' = IF Recording("deletions") THEN h.deleted ELSE deleted
        /\ lastCall' = IF Recording("calls")
                       THEN [Call("onWorkspaceFilesChanged") EXCEPT
                                !.num = Len(changes), !.kinds = Kinds(changes)]
                       ELSE lastCall
        /\ UNCHANGED << vueLs, envVars, inFlight, resolutions, factoryCalls, recording,
                        releaseCalls, disposeCalls >>

\* OnDocumentUpdated treating the update like a change of the set of files
OnDocumentUpdatedStructural ==
    /\ projectVersion < MaxProjectVersion
    /\ CanRun
    /\ projectVersion' = BumpProjectVersion(projectVersion)
    /\ typeRootVersion' = typeRootVersion + 1
    /\ lastCall' = IF Recording("calls") THEN Call("onDocumentUpdated") ELSE lastCall
    /\ tokenRead' = Since(1)
    /\ UNCHANGED << vueLs, parsedCommandLine, scripts, envVars, inFlight,
                    resolutions, histVars, run, fetched, deleted >>

\* lines 94-122 statement by statement.  The events of the batch are inputs
\* nothing else reads, so each is drawn when the loop comes to it; n is
\* changes.length.
BeginChanges(n) ==
    /\ inFlight = None
    /\ n <= MaxProjectVersion - projectVersion
    /\ inFlight' = Some([pc |-> "loop", rest |-> n, structural |-> FALSE, num |-> n,
                         before |-> [projectVersion |-> projectVersion,
                                     typeRootVersion |-> typeRootVersion,
                                     parseCount |-> parseCount]])
    /\ UNCHANGED << progVars, envVars, resolutions, histVars, run, fetched, tokenRead,
                    deleted, lastCall >>

\* lines 96-113: one turn of the loop
ApplyChange(change) ==
    /\ inFlight # None
    /\ inFlight[1].pc = "loop"
    /\ inFlight[1].rest > 0
    /\ LET st == ChangeStep([scripts |-> scripts, projectVersion |-> projectVersion], change)
       IN  /\ scripts' = st.scripts
           /\ projectVersion' = st.projectVersion
    /\ inFlight' = Some([inFlight[1] EXCEPT
                            !.rest = @ - 1,
                            !.structural = @ \/ StructuralChange(<< change >>)])
    /\ UNCHANGED << typeRootVersion, vueLs, parsedCommandLine, envVars, resolutions,
                    histVars, run, fetched, tokenRead, deleted, lastCall >>

\* lines 115-118: the loop is over; the call ends here unless the batch held
\* a Created or Deleted event
EndLoop ==
    /\ inFlight # None
    /\ inFlight[1].pc = "loop"
    /\ inFlight[1].rest = 0
    /\ inFlight' = IF inFlight[1].structural
                   THEN Some([inFlight[1] EXCEPT !.pc = "recompute"])
                   ELSE None
    /\ UNCHANGED << progVars, envVars, resolutions, histVars, run, fetched, tokenRead,
                    deleted, lastCall >>

\* line 119
Recompute ==
    /\ inFlight # None
    /\ inFlight[1].pc = "recompute"
    /\ parsedCommandLine' \in ParsedCommandLines
    /\ parseCount' = parseCount + 1
    /\ inFlight' = Some([inFlight[1] EXCEPT !.pc = "bump"])
    /\ UNCHANGED << typeRootVersion, projectVersion, vueLs, scripts, envVars,
                    resolutions, factoryCalls, recording, releaseCalls, disposeCalls,
                    run, fetched, tokenRead, deleted, lastCall >>

\* line 120
BumpTypeRootVersion ==
    /\ inFlight # None
    /\ inFlight[1].pc = "bump"
    /\ typeRootVersion' = typeRootVersion + 1
    /\ inFlight' = None
    /\ UNCHANGED << projectVersion, vueLs, parsedCommandLine, scripts, envVars,
                    resolutions, histVars, run, fetched, tokenRead, deleted, lastCall >>

\* lines 123-125
OnDocumentUpdated ==
    /\ projectVersion < MaxProjectVersion
    /\ CanRun
    /\ projectVersion' = BumpProjectVersion(projectVersion)
    /\ lastCall' = IF Recording("calls") THEN Call("onDocumentUpdated") ELSE lastCall
    /\ tokenRead' = Since(1)
    /\ UNCHANGED << typeRootVersion, vueLs, parsedCommandLine, scripts, envVars, inFlight,
                    resolutions, histVars, run, fetched, deleted >>

\* ------------------------------------------------------ getLanguageService
\* MustCreate without the test of vueLs
MustCreateAlways(ls) == TRUE

\* lines 49-50: whether the engine has to be constructed
MustCreate(ls) == ls = 0

\* lines 48-93.  languageConfigs.createLanguageService is synchronous: the
\* instance it returns is named by the number of the factory call, and the
\* call returns vueLs as it is afterwards.
LanguageService == IF MustCreate(vueLs) THEN factoryCalls + 1 ELSE vueLs

GetLanguageService ==
    /\ CanRun
    /\ vueLs' = LanguageService
    /\ factoryCalls' = IF MustCreate(vueLs) THEN factoryCalls + 1 ELSE factoryCalls
    /\ lastCall' = IF Recording("calls")
                   THEN [Call("getLanguageService") EXCEPT !.num = LanguageService]
                   ELSE lastCall
    /\ UNCHANGED << typeRootVersion, projectVersion, parsedCommandLine, scripts,
                    envVars, inFlight, resolutions, parseCount, recording, releaseCalls,
                    disposeCalls, run, fetched, tokenRead, deleted >>

\* ------------------------------------------------------------------ dispose
\* Releases counting a release whether or not there is an instance
ReleasesAlways(ls) == 1

\* line 208: vueLs?.dispose()
Releases(ls) == IF ls # 0 THEN 1 ELSE 0

\* lines 207-210
Dispose ==
    /\ Recording("lifecycle") => disposeCalls < MaxDispose
    /\ CanRun
    /\ scripts' = Clear(scripts)
    /\ IF Recording("lifecycle")
       THEN /\ disposeCalls' = disposeCalls + 1
            /\ releaseCalls' = releaseCalls + Releases(vueLs)
       ELSE UNCHANGED << disposeCalls, releaseCalls >>
    /\ run' = IF Recording("runs") THEN [p \in Paths |-> NoRun] ELSE run
    /\ lastCall' = IF Recording("calls") THEN Call("dispose") ELSE lastCall
    /\ UNCHANGED << typeRootVersion, projectVersion, vueLs, parsedCommandLine,
                    envVars, inFlight, resolutions, factoryCalls, parseCount, recording,
                    fetched, tokenRead, deleted >>

\* ------------------------------------------------------- the host's reads
\* The host is handed to the engine's factory only, so the engine is the one
\* that calls it.
HostInUse == vueLs # 0 /\ CanRun

\* ProjectVersionToken reading the other counter
ProjectVersionTokenOfTypeRoots == ToString(typeRootVersion)

\* line 143
ProjectVersionToken == ToString(projectVersion)

GetProjectVersion ==
    /\ HostInUse
    /\ tokenRead' = IF Recording("tokens")
                    THEN [token |-> ProjectVersionToken, since |-> 0]
                    ELSE tokenRead
    /\ UNCHANGED << progVars, envVars, inFlight, resolutions, histVars, run, fetched, deleted, lastCall >>

\* line 144
GetTypeRootsVersion == HostInUse /\ UNCHANGED vars

\* lines 145-151
ScriptFileNames ==
    parsedCommandLine.fileNames \cup { scripts[p].fileName : p \in DOMAIN scripts }

\* [...fileNames]: the elements of a Set as an array, each once
RECURSIVE Spread(_)
Spread(set) ==
    IF set = {} THEN << >>
    ELSE LET name == CHOOSE n \in set : TRUE
         IN  << name >> \o Spread(set \ {name})

\* ScriptFileNamesArray collecting the names in an array instead of a Set
ScriptFileNamesConcat ==
    Spread(parsedCommandLine.fileNames) \o
        Spread({ scripts[p].fileName : p \in DOMAIN scripts })

\* lines 146-150: the array getScriptFileNames returns
ScriptFileNamesArray == Spread(ScriptFileNames)

GetScriptFileNames == HostInUse /\ UNCHANGED vars

\* ScriptVersion asking the registry before the document store
ScriptVersionRegistryFirst(fileName, doc) ==
    LET script == FsPathGet(scripts, fileName)
    IN  IF script # None THEN ToString(script[1].version)
        ELSE IF doc # None THEN ToString(doc[1].version)
        ELSE ""

\* lines 165-173; doc is what documents.data.fsPathGet(fileName) answers
ScriptVersion(fileName, doc) ==
    LET script == FsPathGet(scripts, fileName)
    IN  IF doc # None THEN ToString(doc[1].version)
        ELSE IF script # None THEN ToString(script[1].version)
        ELSE ""

GetScriptVersion(fileName, doc) == HostInUse /\ UNCHANGED vars

\* CacheValid testing only that a snapshot is cached
CacheValidHasSnapshot(script) == script.snapshot # None

\* line 182: script.snapshotVersion === script.version
CacheValid(script) == script.snapshotVersion = Some(script.version)

\* lines 191-192
StoreSnapshot(script, snapshot) ==
    [script EXCEPT !.snapshot = Some(snapshot), !.snapshotVersion = Some(script.version)]

\* NewScript starting the script at version 0
NewScriptAtZero(fileName, snapshot) ==
    [version |-> 0, fileName |-> fileName, snapshot |-> Some(snapshot),
     snapshotVersion |-> Some(0)]

\* lines 195-200
NewScript(fileName, snapshot) ==
    [version |-> -1, fileName |-> fileName, snapshot |-> Some(snapshot),
     snapshotVersion |-> Some(-1)]

\* ReadFailed falling back to the snapshot it has, however stale
ReadFailedStale(map, script) ==
    [ret |-> IF script # None THEN script[1].snapshot ELSE None,
     scripts |-> map, fsRead |-> TRUE]

\* line 205: the file is missing or unreadable, the function ends without a
\* return statement
ReadFailed(map, script) == [ret |-> None, scripts |-> map, fsRead |-> TRUE]

\* lines 174-205, on the registry map: the value returned, the registry
\* afterwards, and whether the filesystem was consulted.  doc is what
\* documents.data.fsPathGet(fileName) answers and file what projectSys
\* answers about fileName.
ScriptSnapshotOn(map, fileName, doc, file) ==
    LET script == FsPathGet(map, fileName)
        text == ReadFile(file)
    IN  IF doc # None
        THEN [ret |-> Some(doc[1].snapshot), scripts |-> map, fsRead |-> FALSE]
        ELSE IF script # None /\ CacheValid(script[1])
        THEN [ret |-> script[1].snapshot, scripts |-> map, fsRead |-> FALSE]
        ELSE IF FileExists(file) /\ text # None
        THEN LET snapshot == FromString(text[1])
             IN  [ret |-> Some(snapshot),
                  scripts |-> IF script # None
                              THEN [map EXCEPT ![fileName] = StoreSnapshot(script[1], snapshot)]
                              ELSE FsPathSet(map, fileName, NewScript(fileName, snapshot)),
                  fsRead |-> TRUE]
        ELSE ReadFailed(map, script)

ScriptSnapshot(fileName, doc, file) == ScriptSnapshotOn(scripts, fileName, doc, file)

GetScriptSnapshot(fileName, doc, file) ==
    LET r == ScriptSnapshot(fileName, doc, file)
    IN  /\ HostInUse
        /\ scripts' = r.scripts
        /\ run' = IF ~Recording("runs") \/ doc # None THEN run
                  ELSE [run EXCEPT ![fileName] =
                           IF fileName \in DOMAIN r.scripts
                           THEN [NoRun EXCEPT !.snap = r.scripts[fileName].snapshotVersion]
                           ELSE NoRun]
        /\ fetched' = IF Recording("fetches") /\ doc = None /\ r.ret # None
                      THEN [fetched EXCEPT ![fileName].held =
                               @ \cup {ToString(r.scripts[fileName].version)}]
                      ELSE fetched
        /\ lastCall' = IF Recording("calls")
                       THEN [Call("getScriptSnapshot") EXCEPT
                                !.path = fileName, !.open = doc # None,
                                !.file = Some(file), !.snap = r.ret,
                                !.fsRead = r.fsRead]
                       ELSE lastCall
        /\ deleted' = IF Recording("deletions") /\ fileName \in DOMAIN r.scripts \ DOMAIN scripts
                      THEN [deleted EXCEPT ![fileName].noRead = FALSE]
                      ELSE deleted
        /\ UNCHANGED << typeRootVersion, projectVersion, vueLs, parsedCommandLine,
                        envVars, inFlight, resolutions, histVars, tokenRead >>

\* ------------------------------------------------------ content resolution
Slots == 1..MaxResolutions

\* a resolution: how it was routed (via), the requests sent to the client for
\* it (sent), the message of the failure underneath it (cause) and the message
\* its caller's promise is rejected with (msg)
Idle == [state |-> "idle", via |-> "", uri |-> "", sent |-> 0, cause |-> "", msg |-> ""]
Suspended(i) == resolutions[i].state \in {"builtin", "remote"}

\* how a handler or the client answers: with the text (no error), or with an error
ErrorMessages == {"timeout"}
Errors == {None} \cup { Some([message |-> m]) : m \in ErrorMessages }

\* line 71
NotHandled == "clientHandledGetDocumentContentRequest is false"

\* RemoteRejection hiding the client's error behind a message of its own
RemoteRejectionGeneric(error) == "request failed"

\* lines 66-67: error => Promise.reject(error.message)
RemoteRejection(error) == error.message

\* line 59: the handler's promise is returned as it is, the caller sees the
\* handler's own rejection
BuiltInRejection(error) == error.message

\* lines 53-72: the engine asks for the content of uri
SchemaRequest(i, uri) ==
    /\ HostInUse
    /\ ~Suspended(i)
    /\ resolutions' = [resolutions EXCEPT ![i] =
          IF Protocol(uri) \in BuiltInProtocols
          THEN [state |-> "builtin", via |-> "builtin", uri |-> uri, sent |-> 0,
                cause |-> "", msg |-> ""]
          ELSE IF schemaRequestService
          THEN [state |-> "remote", via |-> "remote", uri |-> uri, sent |-> 1,
                cause |-> "", msg |-> ""]
          ELSE [state |-> "rejected", via |-> "none", uri |-> uri, sent |-> 0,
                cause |-> NotHandled, msg |-> NotHandled]]
    /\ lastCall' = IF Recording("calls") THEN Call("schemaRequest") ELSE lastCall
    /\ UNCHANGED << progVars, envVars, inFlight, histVars, run, fetched, tokenRead, deleted >>

\* line 59: the promise of the built-in handler settles
BuiltInSettles(i, error) ==
    /\ CanRun
    /\ resolutions[i].state = "builtin"
    /\ resolutions' = [resolutions EXCEPT ![i] =
          IF error = None
          THEN [@ EXCEPT !.state = "resolved"]
          ELSE [@ EXCEPT !.state = "rejected", !.cause = error[1].message,
                         !.msg = BuiltInRejection(error[1])]]
    /\ lastCall' = IF Recording("calls") THEN Call("schemaRequest") ELSE lastCall
    /\ UNCHANGED << progVars, envVars, inFlight, histVars, run, fetched, tokenRead, deleted >>

\* lines 63-67: the client answers the GetDocumentContentRequest, or fails
\* with an error
RemoteSettles(i, error) ==
    /\ CanRun
    /\ resolutions[i].state = "remote"
    /\ resolutions' = [resolutions EXCEPT ![i] =
          IF error = None
          THEN [@ EXCEPT !.state = "resolved"]
          ELSE [@ EXCEPT !.state = "rejected", !.cause = error[1].message,
                         !.msg = RemoteRejection(error[1])]]
    /\ lastCall' = IF Recording("calls") THEN Call("schemaRequest") ELSE lastCall
    /\ UNCHANGED << progVars, envVars, inFlight, histVars, run, fetched, tokenRead, deleted >>

\* ------------------------------------------------------------ specification
\* lines 26-37: the state createProject leaves
InitProject ==
    /\ typeRootVersion = 0
    /\ projectVersion = 0
    /\ vueLs = 0
    /\ parsedCommandLine \in ParsedCommandLines
    /\ scripts = [p \in {} |-> 0]
    /\ resolutions = [i \in Slots |-> Idle]
    /\ inFlight = None
    /\ factoryCalls = 0
    /\ releaseCalls = 0
    /\ disposeCalls = 0
    /\ parseCount = 1
    /\ run = [p \in Paths |-> NoRun]
    /\ fetched = [p \in Paths |-> NoFetch]
    /\ tokenRead = NoToken
    /\ deleted = [p \in Paths |-> NotDeleted]
    /\ lastCall = Call("createProject")

\* the controller's operations and the engine's reads
Next ==
    \/ \E changes \in Batches : OnWorkspaceFilesChanged(changes)
    \/ OnDocumentUpdated
    \/ GetLanguageService
    \/ Dispose
    \/ GetProjectVersion
    \/ GetTypeRootsVersion
    \/ GetScriptFileNames
    \/ \E p \in Paths, doc \in DocAnswers : GetScriptVersion(p, doc)
    \/ \E p \in Paths, doc \in DocAnswers, file \in FileStates :
          GetScriptSnapshot(p, doc, file)

\* the project with the default options (no schemaRequestService), keeping
\* the history of calls
Init == InitProject /\ schemaRequestService = FALSE /\ recording = "calls"

Spec == Init /\ [][Next]_vars

\* the same, keeping the history of runs of changes
InitRuns == InitProject /\ schemaRequestService = FALSE /\ recording = "runs"

SpecRuns == InitRuns /\ [][Next]_vars

\* the same, keeping the history of deletions
InitDeletions == InitProject /\ schemaRequestService = FALSE /\ recording = "deletions"

SpecDeletions == InitDeletions /\ [][Next]_vars

\* the same, keeping the history of version tokens
InitTokens == InitProject /\ schemaRequestService = FALSE /\ recording = "tokens"

SpecTokens == InitTokens /\ [][Next]_vars

\* the same, keeping the history of snapshot fetches
InitFetches == InitProject /\ schemaRequestService = FALSE /\ recording = "fetches"

SpecFetches == InitFetches /\ [][Next]_vars

\* the same, keeping the history of disposals
InitLifecycle == InitProject /\ schemaRequestService = FALSE /\ recording = "lifecycle"

SpecLifecycle == InitLifecycle /\ [][Next]_vars

\* the project with either setting of schemaRequestService: the operations of
\* the controller (lines 39-46) and the content resolutions of the engine,
\* which suspend on the handler's or the client's answer.  The registry has
\* no part in them: nothing fetches a snapshot here and it stays empty.
InitAsync == InitProject /\ schemaRequestService \in BOOLEAN /\ recording = "lifecycle"

NextAsync ==
    \/ \E changes \in Batches : OnWorkspaceFilesChanged(changes)
    \/ OnDocumentUpdated
    \/ GetLanguageService
    \/ Dispose
    \/ GetProjectVersion
    \/ GetTypeRootsVersion
    \/ \E i \in Slots, uri \in SchemaUris : SchemaRequest(i, uri)
    \/ \E i \in Slots, error \in Errors : BuiltInSettles(i, error)
    \/ \E i \in Slots, error \in Errors : RemoteSettles(i, error)

SpecAsync == InitAsync /\ [][NextAsync]_vars

\* the same project, onWorkspaceFilesChanged followed statement by statement
\* among the other operations, the engine's reads and one content resolution
\* at a time
InitSteps == InitProject /\ schemaRequestService \in BOOLEAN /\ recording = "none"

NextSteps ==
    \/ \E n \in 0..MaxBatch : BeginChanges(n)
    \/ \E change \in Changes : ApplyChange(change)
    \/ EndLoop
    \/ Recompute
    \/ BumpTypeRootVersion
    \/ OnDocumentUpdated
    \/ GetLanguageService
    \/ Dispose
    \/ GetProjectVersion
    \/ GetTypeRootsVersion
    \/ GetScriptFileNames
    \/ \E p \in Paths, doc \in DocAnswers : GetScriptVersion(p, doc)
    \/ \E p \in Paths, doc \in DocAnswers, file \in FileStates :
          GetScriptSnapshot(p, doc, file)
    \/ \E uri \in SchemaUris : SchemaRequest(1, uri)
    \/ \E error \in Errors : BuiltInSettles(1, error)
    \/ \E error \in Errors : RemoteSettles(1, error)

SpecSteps == InitSteps /\ [][NextSteps]_vars

\* ------------------------------------------------------------------ claims
\* C1: a batch of N change events, of any kinds and on tracked or untracked
\* paths, leaves projectVersion at its value before the batch plus N.
C1_ProjectVersionPerEvent ==
    lastCall.op = "onWorkspaceFilesChanged" =>
        projectVersion = lastCall.before.projectVersion + lastCall.num

\* a batch of two events of different kinds has been processed, one of them on
\* a tracked path, by a project whose version was not 0
C1_Witness ==
    /\ lastCall.op = "onWorkspaceFilesChanged"
    /\ lastCall.num = 2
    /\ Cardinality(lastCall.kinds) = 2
    /\ lastCall.before.projectVersion = 1
    /\ \E p \in DOMAIN scripts : scripts[p].version < lastCall.before.scripts[p].version

\* C2: a batch with a Created or Deleted event adds exactly one to
\* typeRootVersion and recomputes the parsed command line exactly once, however
\* many such events it holds; a batch of Changed events only, or an empty one,
\* leaves both as they are.
C2_TypeRootPerBatch ==
    lastCall.op = "onWorkspaceFilesChanged" =>
        IF lastCall.kinds \cap {"Created", "Deleted"} # {}
        THEN /\ typeRootVersion = lastCall.before.typeRootVersion + 1
             /\ parseCount = lastCall.before.parseCount + 1
        ELSE /\ typeRootVersion = lastCall.before.typeRootVersion
             /\ parseCount = lastCall.before.parseCount
             /\ parsedCommandLine = lastCall.before.parsedCommandLine

\* a batch of a Created and a Deleted event has been processed: one bump, one
\* recomputation
C2_Witness ==
    /\ lastCall.op = "onWorkspaceFilesChanged"
    /\ lastCall.num = 2
    /\ lastCall.kinds = {"Created", "Deleted"}
    /\ typeRootVersion = lastCall.before.typeRootVersion + 1
    /\ parseCount = lastCall.before.parseCount + 1

\* the last call fetched the snapshot of a path that is no open document
FetchedFromRegistry == lastCall.op = "getScriptSnapshot" /\ ~lastCall.open

\* ... and found an entry whose snapshotVersion is its version
FoundValidCache ==
    /\ lastCall.path \in DOMAIN lastCall.before.scripts
    /\ lastCall.before.scripts[lastCall.path].snapshotVersion =
           Some(lastCall.before.scripts[lastCall.path].version)

\* ... and the file it asked for exists and can be read
FileReadable == lastCall.file[1].exists /\ lastCall.file[1].text # None

\* C3: for a path that is no open document, getScriptSnapshot returns the
\* cached snapshot without consulting the filesystem exactly when the path has
\* an entry whose snapshotVersion equals its version; otherwise it consults the
\* filesystem and, when the file can be read, returns the new snapshot and
\* stores it with snapshotVersion set to the entry's version (which it leaves
\* as it is), so that a repeated fetch returns that snapshot from the cache.
C3_CacheHitIffVersionsAgree ==
    FetchedFromRegistry =>
        LET p == lastCall.path
        IN  /\ lastCall.fsRead <=> ~FoundValidCache
            /\ FoundValidCache =>
                  /\ lastCall.snap = lastCall.before.scripts[p].snapshot
                  /\ scripts = lastCall.before.scripts
            /\ ~FoundValidCache /\ FileReadable =>
                  /\ lastCall.snap = Some(FromString(lastCall.file[1].text[1]))
                  /\ p \in DOMAIN scripts
                  /\ scripts[p].snapshot = lastCall.snap
                  /\ scripts[p].snapshotVersion = Some(scripts[p].version)
                  /\ p \in DOMAIN lastCall.before.scripts =>
                        scripts[p].version = lastCall.before.scripts[p].version
                  /\ \A file \in FileStates :
                        ScriptSnapshot(p, None, file) =
                            [ret |-> lastCall.snap, scripts |-> scripts, fsRead |-> FALSE]

\* a stale entry (two changes behind its snapshot) has been read again from a
\* file whose text differs from the cached one
C3_Witness ==
    /\ FetchedFromRegistry
    /\ lastCall.fsRead
    /\ lastCall.path \in DOMAIN lastCall.before.scripts
    /\ lastCall.before.scripts[lastCall.path].snapshotVersion = Some(-1)
    /\ lastCall.before.scripts[lastCall.path].version = -3
    /\ lastCall.snap # None
    /\ lastCall.snap # lastCall.before.scripts[lastCall.path].snapshot
    /\ scripts[lastCall.path].snapshotVersion = Some(-3)

\* C10: when getScriptSnapshot finds, for a path that is no open document, no
\* valid cached snapshot and the file is missing or unreadable, it returns
\* undefined and leaves the registry, projectVersion and typeRootVersion as
\* they were.
C10_FailedReadReturnsUndefined ==
    FetchedFromRegistry /\ ~FoundValidCache /\ ~FileReadable =>
        /\ lastCall.snap = None
        /\ scripts = lastCall.before.scripts
        /\ projectVersion = lastCall.before.projectVersion
        /\ typeRootVersion = lastCall.before.typeRootVersion

\* the fetch found a stale entry and a file that exists but cannot be read
C10_Witness ==
    /\ FetchedFromRegistry
    /\ ~FoundValidCache
    /\ lastCall.path \in DOMAIN lastCall.before.scripts
    /\ lastCall.file[1].exists
    /\ lastCall.file[1].text = None
    /\ lastCall.snap = None

\* C4: on a tracked path, the changes (Changed or Created events) since the
\* last snapshot read give versions that differ from one another and from the
\* snapshotVersion cached before them, so the next snapshot fetch of the path
\* consults the filesystem whatever the file is.
C4_RunVersionsDistinct ==
    \A p \in DOMAIN scripts :
        /\ Cardinality(run[p].vers) = run[p].n
        /\ \A v \in run[p].vers : Some(v) # run[p].snap
        /\ run[p].n >= 1 =>
              /\ scripts[p].version \in run[p].vers
              /\ scripts[p].snapshotVersion = run[p].snap
              /\ \A file \in FileStates : ScriptSnapshot(p, None, file).fsRead

\* a tracked path has seen two changes since its last snapshot read
C4_Witness ==
    \E p \in DOMAIN scripts : run[p].n = 2 /\ run[p].snap = Some(-1)

\* C5 as stated: after a Deleted event removed a path's entry, and until a
\* Created event for the path, getScriptVersion of the path (no open
\* document) is the empty string.
C5_UntrackedUntilCreated ==
    \A p \in Paths : deleted[p].noCreate => ScriptVersion(p, None) = ""

\* C5 amended: after a Deleted event removed a path's entry, getScriptVersion
\* of the path (no open document) is the empty string until a getScriptSnapshot
\* call reads the file and tracks the path again; no change event, a Created
\* one included, brings the entry back.
C5_UntrackedUntilRead ==
    \A p \in Paths : deleted[p].noRead => ScriptVersion(p, None) = "" /\ p \notin DOMAIN scripts

\* a path's entry was deleted and a Created event for the path followed
C5_Witness ==
    \E p \in Paths : deleted[p].noRead /\ ~deleted[p].noCreate

\* C6: the factory is called at most once, and getLanguageService returns the
\* first instance whenever it is called, also after dispose and while content
\* resolutions are suspended.
C6_SingleLanguageService ==
    /\ factoryCalls <= 1
    /\ LanguageService = 1
    /\ vueLs \in {0, 1}

\* the engine exists, the project has been disposed and a content resolution
\* the engine started is suspended
C6_Witness ==
    /\ vueLs = 1
    /\ factoryCalls = 1
    /\ disposeCalls >= 1
    /\ \E i \in Slots : Suspended(i)

\* C7 as stated: after dispose, onWorkspaceFilesChanged and onDocumentUpdated
\* change neither projectVersion, typeRootVersion, the registry nor the parsed
\* command line.
C7_DisposedIsTerminal ==
    [][/\ disposeCalls >= 1
       /\ \/ \E changes \in Batches : OnWorkspaceFilesChanged(changes)
          \/ OnDocumentUpdated
       => UNCHANGED << projectVersion, typeRootVersion, scripts, parsedCommandLine >>]_vars

\* C8 as stated: over any sequence of operations the instance's dispose is
\* called at most once.
C8_ReleasedAtMostOnce == releaseCalls <= 1

\* C9: right after dispose the registry is empty, every path that is no open
\* document has the empty version, getScriptFileNames is the parsed command
\* line's fileNames, and the call has released the instance if and only if
\* there was one.
C9_DisposeClearsAndReleases ==
    [][disposeCalls' = disposeCalls + 1 =>
          /\ DOMAIN scripts' = {}
          /\ \A p \in Paths : ScriptVersion(p, None)' = ""
          /\ ScriptFileNames' = parsedCommandLine'.fileNames
          /\ releaseCalls' = IF vueLs # 0 THEN releaseCalls + 1 ELSE releaseCalls]_vars

\* dispose has released the instance of a project whose registry it emptied
C9_Witness ==
    /\ disposeCalls = 1
    /\ releaseCalls = 1
    /\ DOMAIN scripts = {}
    /\ projectVersion > 0

\* C11: onDocumentUpdated adds exactly one to projectVersion and leaves the
\* registry (its entries, their versions and snapshots), typeRootVersion and
\* the parsed command line as they were, without recomputing it.
C11_DocumentUpdateBumpsOnly ==
    lastCall.op = "onDocumentUpdated" =>
        /\ projectVersion = lastCall.before.projectVersion + 1
        /\ scripts = lastCall.before.scripts
        /\ typeRootVersion = lastCall.before.typeRootVersion
        /\ parsedCommandLine = lastCall.before.parsedCommandLine
        /\ parseCount = lastCall.before.parseCount

\* a document update reached a project that tracks a stale script and whose
\* counters had both moved
C11_Witness ==
    /\ lastCall.op = "onDocumentUpdated"
    /\ lastCall.before.projectVersion >= 1
    /\ lastCall.before.typeRootVersion >= 1
    /\ \E p \in DOMAIN scripts : scripts[p].snapshotVersion # Some(scripts[p].version)

\* C12: in every state getScriptFileNames returns the parsed command line's
\* fileNames together with the paths of the registry's entries, each path
\* once: a path tracked by a snapshot fetch is listed though the configuration
\* does not name it, and a path whose entry a Deleted event removed is listed
\* only if the configuration names it.
C12_FileNamesAreUnion ==
    LET names == ScriptFileNamesArray
        listed == { names[i] : i \in 1..Len(names) }
    IN  /\ listed = parsedCommandLine.fileNames \cup DOMAIN scripts
        /\ Len(names) = Cardinality(listed)
        /\ \A p \in DOMAIN scripts : p \in listed
        /\ \A p \in Paths \ DOMAIN scripts :
              p \in listed <=> p \in parsedCommandLine.fileNames

\* a batch has deleted the entry of a path the configuration does not name,
\* while a path the configuration names is tracked as well
C12_Witness ==
    /\ lastCall.op = "onWorkspaceFilesChanged"
    /\ "Deleted" \in lastCall.kinds
    /\ \E p \in DOMAIN lastCall.before.scripts :
          p \notin DOMAIN scripts /\ p \notin parsedCommandLine.fileNames
    /\ \E p \in DOMAIN scripts : p \in parsedCommandLine.fileNames

\* C13: for a path that is an open document, getScriptVersion returns the
\* string of the document's version and getScriptSnapshot the document's
\* snapshot, whatever entry the registry has for the path and whatever the
\* file is; the call does not consult the filesystem and leaves the registry
\* as it was.  The filesystem is consulted for paths without a document only.
C13_OpenDocumentWins ==
    /\ \A p \in Paths, d \in Documents :
          /\ ScriptVersion(p, Some(d)) = ToString(d.version)
          /\ \A file \in FileStates :
                ScriptSnapshot(p, Some(d), file) =
                    [ret |-> Some(d.snapshot), scripts |-> scripts, fsRead |-> FALSE]
    /\ lastCall.op = "getScriptSnapshot" /\ lastCall.open =>
          /\ scripts = lastCall.before.scripts
          /\ ~lastCall.fsRead
          /\ \E d \in Documents : lastCall.snap = Some(d.snapshot)
    /\ lastCall.op = "getScriptSnapshot" /\ lastCall.fsRead => ~lastCall.open

\* the snapshot of an open document was fetched while the registry held a
\* stale entry for its path and the file could be read
C13_Witness ==
    /\ lastCall.op = "getScriptSnapshot"
    /\ lastCall.open
    /\ lastCall.path \in DOMAIN scripts
    /\ scripts[lastCall.path].snapshotVersion # Some(scripts[lastCall.path].version)
    /\ lastCall.file[1].exists
    /\ lastCall.file[1].text # None
    /\ lastCall.snap # scripts[lastCall.path].snapshot

\* C14: projectVersion and typeRootVersion never decrease from one state to
\* the next, and the token getProjectVersion returned at its last call equals
\* the token of the present state exactly when no change event and no
\* document update came in between.
C14_MonotoneVersionTokens ==
    [][/\ projectVersion' >= projectVersion
       /\ typeRootVersion' >= typeRootVersion
       /\ tokenRead' # NoToken =>
             (ProjectVersionToken' = tokenRead'.token <=> tokenRead'.since = 0)]_vars

\* the token "1" was read, and two events, one of them structural, followed
C14_Witness ==
    /\ tokenRead.token = "1"
    /\ tokenRead.since = 2
    /\ projectVersion = 3
    /\ typeRootVersion >= 1

\* a resolution is routed by its uri's protocol: to the built-in handler if
\* there is one, else to the client if schemaRequestService is set, else it is
\* rejected at once
RoutedByProtocol(i) ==
    LET r == resolutions[i]
    IN  r.state # "idle" =>
           /\ r.via = "builtin" <=> Protocol(r.uri) \in BuiltInProtocols
           /\ r.via = "remote" <=>
                 Protocol(r.uri) \notin BuiltInProtocols /\ schemaRequestService
           /\ r.via = "none" <=>
                 Protocol(r.uri) \notin BuiltInProtocols /\ ~schemaRequestService
           /\ r.via = "none" => r.state = "rejected" /\ r.msg = NotHandled
           /\ r.sent = IF r.via = "remote" THEN 1 ELSE 0

\* C15: a content resolution goes to the built-in handler of its uri's
\* protocol if there is one, else to the client if schemaRequestService is
\* set, else it is rejected with a message saying so; a rejected resolution
\* carries the message of the failure underneath it, at most one request was
\* sent to the client for it, and the step that rejects it leaves
\* projectVersion, typeRootVersion, the registry and the parsed command line
\* as they were.
C15_RejectionPropagates ==
    [][/\ \A i \in Slots : RoutedByProtocol(i)'
       /\ \A i \in Slots : resolutions'[i].state = "rejected" =>
             /\ resolutions'[i].msg = resolutions'[i].cause
             /\ resolutions'[i].msg # ""
             /\ resolutions'[i].sent <= 1
       /\ (\E i \in Slots : resolutions'[i] # resolutions[i]) =>
             UNCHANGED << projectVersion, typeRootVersion, scripts, parsedCommandLine >>]_vars

\* the client's failure of the one request sent has reached the caller, in a
\* project whose counters had moved
C15_Witness ==
    /\ \E i \in Slots :
          /\ resolutions[i].state = "rejected"
          /\ resolutions[i].via = "remote"
          /\ resolutions[i].sent = 1
          /\ resolutions[i].msg \in ErrorMessages
    /\ projectVersion >= 1
    /\ typeRootVersion >= 1

\* C16: a batch given to onWorkspaceFilesChanged takes effect as a whole, also
\* while a content resolution is suspended: in no state in which another
\* operation, a read of the host or the continuation of a resolution can run
\* is the call part-way, and the call ends with projectVersion advanced by the
\* length of the batch and, if the batch held a Created or Deleted event, with
\* the parsed command line recomputed once and typeRootVersion advanced by
\* one, else with both as the call found them.  onDocumentUpdated is one step.
C16_BatchIsAtomic ==
    [][/\ CanRun' => inFlight' = None
       /\ inFlight # None /\ inFlight' = None =>
             LET call == inFlight[1]
                 structural == IF call.structural THEN 1 ELSE 0
             IN  /\ projectVersion' = call.before.projectVersion + call.num
                 /\ typeRootVersion' = call.before.typeRootVersion + structural
                 /\ parseCount' = call.before.parseCount + structural
       /\ projectVersion' # projectVersion /\ inFlight = None =>
             inFlight' = None /\ projectVersion' = projectVersion + 1]_vars

\* a batch of two events, one of them on a tracked path, is applied but the
\* configuration is not yet recomputed, while the engine exists and a content
\* resolution is suspended
C16_Witness ==
    /\ inFlight # None
    /\ inFlight[1].pc = "recompute"
    /\ inFlight[1].num = 2
    /\ projectVersion = inFlight[1].before.projectVersion + 2
    /\ typeRootVersion = inFlight[1].before.typeRootVersion
    /\ vueLs # 0
    /\ Suspended(1)
    /\ \E p \in DOMAIN scripts : scripts[p].snapshotVersion # Some(scripts[p].version)

\* a step tracks /a.ts, which had no entry
FirstTracked == "/a.ts" \notin DOMAIN scripts /\ "/a.ts" \in DOMAIN scripts'

\* a step applies exactly one change event to /a.ts, tracked and read at
\* version v and unchanged since
ChangedOnceAt(v) ==
    /\ "/a.ts" \in DOMAIN scripts
    /\ scripts["/a.ts"].version = v
    /\ scripts["/a.ts"].snapshotVersion = Some(v)
    /\ run["/a.ts"].n = 0
    /\ run'["/a.ts"].n = 1

\* C17 as stated: the snapshot fetch that first tracks /a.ts leaves its entry
\* at version 0 with snapshotVersion 0 and getScriptVersion "0"; one Changed
\* event later the version is -1 and getScriptVersion "-1", and the next
\* snapshot fetch consults the filesystem.
C17_ScenarioAFromZero ==
    [][/\ FirstTracked =>
             /\ scripts'["/a.ts"].version = 0
             /\ scripts'["/a.ts"].snapshotVersion = Some(0)
             /\ ScriptVersion("/a.ts", None)' = "0"
       /\ ChangedOnceAt(0) =>
             /\ scripts'["/a.ts"].version = -1
             /\ ScriptVersion("/a.ts", None)' = "-1"
             /\ \A file \in FileStates : ScriptSnapshot("/a.ts", None, file)'.fsRead]_vars

\* C17 amended: the snapshot fetch that first tracks /a.ts leaves its entry at
\* version -1 with snapshotVersion -1 and getScriptVersion "-1"; one Changed
\* event later the version is -2 and getScriptVersion "-2", different from
\* "-1", and the next snapshot fetch consults the filesystem instead of
\* returning the cached snapshot.
C17_ScenarioAFromMinusOne ==
    [][/\ FirstTracked =>
             /\ scripts'["/a.ts"].version = -1
             /\ scripts'["/a.ts"].snapshotVersion = Some(-1)
             /\ ScriptVersion("/a.ts", None)' = "-1"
       /\ ChangedOnceAt(-1) =>
             /\ scripts'["/a.ts"].version = -2
             /\ ScriptVersion("/a.ts", None)' = "-2"
             /\ ScriptVersion("/a.ts", None)' # ScriptVersion("/a.ts", None)
             /\ \A file \in FileStates : ScriptSnapshot("/a.ts", None, file)'.fsRead]_vars

\* /a.ts was tracked by a fetch at version -1 and one change event followed
C17_Witness ==
    /\ "/a.ts" \in DOMAIN scripts
    /\ run["/a.ts"].n = 1
    /\ run["/a.ts"].snap = Some(-1)
    /\ scripts["/a.ts"].version = -2
    /\ ScriptVersion("/a.ts", None) = "-2"

\* C18 as stated: a token under which a snapshot of a path (no open document)
\* was fetched is never returned by getScriptVersion for that path again once
\* a Created, Changed or Deleted event for the path has been processed.
C18_TokenNeverReused ==
    \A p \in Paths : ScriptVersion(p, None) \notin fetched[p].spent

\* C19: entries come into the registry by reading only.  A change event of
\* any kind for a path without an entry leaves the registry as it is and adds
\* one to projectVersion; no batch adds an entry; and a call after which the
\* registry holds a path it did not hold before is a getScriptSnapshot call
\* for that path, no open document, that read the file from the filesystem.
C19_EntriesCreatedByReadOnly ==
    /\ \A change \in Changes :
          UriToFsPath(change.uri) \notin DOMAIN scripts =>
             ChangeStep([scripts |-> scripts, projectVersion |-> projectVersion], change) =
                [scripts |-> scripts, projectVersion |-> projectVersion + 1]
    /\ lastCall.op = "onWorkspaceFilesChanged" =>
          DOMAIN scripts \subseteq DOMAIN lastCall.before.scripts
    /\ DOMAIN scripts \ DOMAIN lastCall.before.scripts # {} =>
          /\ FetchedFromRegistry
          /\ lastCall.fsRead
          /\ FileReadable
          /\ DOMAIN scripts \ DOMAIN lastCall.before.scripts = {lastCall.path}
    /\ FetchedFromRegistry /\ FileReadable
          /\ lastCall.path \notin DOMAIN lastCall.before.scripts =>
          lastCall.path \in DOMAIN scripts

\* a batch of two events, one of them Created, all for a path without an
\* entry, has left a registry that tracks another path as it was
C19_Witness ==
    /\ lastCall.op = "onWorkspaceFilesChanged"
    /\ lastCall.num = 2
    /\ "Created" \in lastCall.kinds
    /\ scripts = lastCall.before.scripts
    /\ DOMAIN scripts # {}
    /\ DOMAIN scripts # Paths

\* an entry holds a snapshot and the version it was read at, its version is
\* negative and not above that version
WellFormed(script) ==
    /\ script.snapshot # None
    /\ script.snapshotVersion # None
    /\ script.version <= -1
    /\ script.version <= script.snapshotVersion[1]

\* C20: every entry of the registry has a snapshot and a snapshotVersion, a
\* version of at most -1 and a version not above its snapshotVersion; while
\* an entry lives its version never increases, and its snapshotVersion
\* changes only in a getScriptSnapshot call that read the file, to the version
\* the entry had then.
C20_EntriesWellFormed ==
    [][\A p \in DOMAIN scripts' :
          /\ WellFormed(scripts'[p])
          /\ p \in DOMAIN scripts =>
                /\ scripts'[p].version <= scripts[p].version
                /\ scripts'[p].snapshotVersion # scripts[p].snapshotVersion =>
                      /\ scripts'[p].snapshotVersion = Some(scripts[p].version)
                      /\ scripts'[p].version = scripts[p].version
                      /\ lastCall'.op = "getScriptSnapshot"
                      /\ lastCall'.path = p
                      /\ lastCall'.fsRead
                      /\ lastCall'.snap = scripts'[p].snapshot
          /\ p \notin DOMAIN scripts =>
                scripts'[p].snapshotVersion = Some(scripts'[p].version)]_vars

\* an entry read at version -2 has changed since
C20_Witness ==
    \E p \in DOMAIN scripts :
        scripts[p].version = -3 /\ scripts[p].snapshotVersion = Some(-2)

====
